---------------------------- MODULE Spec2Model ----------------------------
(***************************************************************************)
(* bitw0r1d: the cultural evolution of a technological system and a search *)
(* space, two bit-strings edited generation by generation under a resource *)
(* store with an absorbing depletion barrier (src/bitw0r1d.py).            *)
(*                                                                         *)
(* Numbers.  The program computes in floats.  Every quantity it derives    *)
(* from the strings is a rational whose denominator divides                *)
(* max(len(technologies), len(space)), so the model keeps effectiveness,   *)
(* net_resources, available_resources and resource_store as integers       *)
(* scaled by Unit = lcm(1..MaxLen): the float 1.0 is Unit.  The float      *)
(* comparisons (>= 1, >= 0, >= deficit, <=) and round() decide as the      *)
(* exact rationals do for the lengths modelled; float rounding noise of    *)
(* the order of 1e-16 in the values themselves is not modelled.            *)
(*                                                                         *)
(* Probabilities (eta, lambda, p_tradeoff) are k/2 with k in 0..2, and a   *)
(* draw of random() against them is u/2 with u in 0..1, which keeps the    *)
(* cases  p = 0.0 (never), 0 < p < 1 (either) and p = 1.0 (always).        *)
(***************************************************************************)
EXTENDS Integers, Sequences, FiniteSets, TLC

VARIABLES
    pc,                  \* position of simulation(): start, gen0, loop, edit, record, done
    args,                \* the parameters simulation() was called with
    s,                   \* the Society object
    output,              \* simulation's output list of generation records
    gen,                 \* loop variable of the generation loop
    net_resources,       \* local of simulation / argument of update_resource_store
    available_resources, \* value returned by the latest update_resource_store
    iterations,          \* local of simulation (number of edit events this generation)
    choices,             \* the tradeoff() draws not yet consumed by the edit loop
    outcome,             \* which return statement ended the run
    store_before,        \* history: resource_store at entry of the latest update_resource_store
    depleted_before,     \* history: is_depleted at entry of the latest Society mutator call
    str_1,               \* string operator harness: the argument
    new,                 \* string operator harness: the result
    call,                \* string operator harness: the other arguments, the draws, a numeric result
    np_state,            \* state of numpy's global generator  (np.random)
    rn_state,            \* state of Python's global generator (random)
    prev_output,         \* history: the output of the previous run with these arguments
    run                  \* how many runs with these arguments have been started

vars == <<pc, args, s, output, gen, net_resources, available_resources,
          iterations, choices, outcome, store_before, depleted_before,
          str_1, new, call, np_state, rn_state, prev_output, run>>

-----------------------------------------------------------------------------
(* Bounds of the model *)

\* Longest bit-string kept; an insert is drawn only below this length.
MaxLen == 3
\* Largest value of the generations argument.
MaxGen == 3
\* Largest initial_endowment, in whole resource units.
MaxEndow == 1
\* Largest s_length / t_length argument: the lengths src/model/multi.py starts from.
MaxInitLen == 2
\* Largest seed argument.
MaxSeed == 3
\* Number of states of the abstract pseudo-random generators.
RngMod == 16

-----------------------------------------------------------------------------
(* Scaled arithmetic *)

Max(a, b) == IF a >= b THEN a ELSE b
Min(a, b) == IF a <= b THEN a ELSE b
Abs(x) == IF x >= 0 THEN x ELSE -x

RECURSIVE Gcd(_, _)
Gcd(a, b) == IF b = 0 THEN a ELSE Gcd(b, a % b)

RECURSIVE LcmUpTo(_)
LcmUpTo(n) == IF n <= 1 THEN 1 ELSE LET l == LcmUpTo(n - 1) IN (l * n) \div Gcd(l, n)

\* The float 1.0
Unit == LcmUpTo(MaxLen)

\* Python 3 round(): to the nearest integer, ties to the even one (x >= 0, scaled)
Round(x) ==
    LET q == x \div Unit
        r == x % Unit
    IN  IF 2 * r < Unit THEN q
        ELSE IF 2 * r > Unit THEN q + 1
        ELSE IF q % 2 = 0 THEN q ELSE q + 1

-----------------------------------------------------------------------------
(* Bit-strings and the string operators.  A bit-string is a sequence over  *)
(* {0, 1}; positions passed to the operators are 0-based, as in the code.  *)

Bit == {0, 1}

RECURSIVE StringsOfLen(_)
StringsOfLen(n) ==
    IF n = 0 THEN {<<>>}
    ELSE {Append(x, b) : x \in StringsOfLen(n - 1), b \in Bit}

\* Levenshtein distance of the prefixes a[1..i] and b[1..j] (polyleven.levenshtein)
RECURSIVE Lev(_, _, _, _)
Lev(a, b, i, j) ==
    IF i = 0 THEN j
    ELSE IF j = 0 THEN i
    ELSE LET del == Lev(a, b, i - 1, j) + 1
             ins == Lev(a, b, i, j - 1) + 1
             sub == Lev(a, b, i - 1, j - 1) + (IF a[i] = b[j] THEN 0 ELSE 1)
         IN  Min(del, Min(ins, sub))

\* The distance of every pair of strings of the model, computed once
AllStrings == UNION {StringsOfLen(n) : n \in 0..(MaxLen + 1)}
LdTable == [a \in AllStrings |-> [b \in AllStrings |-> Lev(a, b, Len(a), Len(b))]]

ld(a, b) == LdTable[a][b]

\* evaluate normalising by the length of its first argument
EvaluateByFirst(technologies, space) ==
    Unit - (Unit * ld(technologies, space)) \div Len(technologies)

\* 1 - ld / max(len), scaled by Unit
evaluate(technologies, space) ==
    Unit - (Unit * ld(technologies, space)) \div Max(Len(technologies), Len(space))

\* np.random.choice(['0','1'], l, [p, 1-p]): the third positional parameter of
\* choice is `replace`, so [p, 1-p] is only a truthy flag and every symbol is
\* drawn uniformly; idx are the l indices drawn into ['0','1'].
string_generator(p, l, idx) ==
    LET a == <<0, 1>> IN [i \in 1..l |-> a[idx[i] + 1]]

flip(string, position) ==
    SubSeq(string, 1, position)
        \o <<IF string[position + 1] = 1 THEN 0 ELSE 1>>
        \o SubSeq(string, position + 2, Len(string))

\* u is the draw of rn.random() in halves: u < 1 is random() < 0.5
insert(string, position, u) ==
    LET value == IF u < 1 THEN 0 ELSE 1
    IN  SubSeq(string, 1, position) \o <<value>> \o SubSeq(string, position + 1, Len(string))

\* delete keeping only what precedes the position
DeleteFrom(string, position) == SubSeq(string, 1, position)

delete(string, position) ==
    SubSeq(string, 1, position) \o SubSeq(string, position + 2, Len(string))

\* Candidate without the length guard of line 73
CandidateUnguarded(string, d) ==
    IF d.p < 1 THEN flip(string, d.position)
    ELSE IF d.p < 2 THEN insert(string, d.position, d.value)
    ELSE delete(string, d.position)

\* Lines 67-76 of string_edit: the candidate.  d.p is the first random() in
\* thirds (d.p < 1 is p < 1/3, d.p < 2 is p < 2/3).
Candidate(string, d) ==
    IF d.p < 1 THEN flip(string, d.position)
    ELSE IF d.p < 2 THEN insert(string, d.position, d.value)
    ELSE IF Len(string) > 1 THEN delete(string, d.position)
    ELSE string

\* Select keeping the argument when the candidate is the better one
SelectReversed(cand, string, str_2, eff, q) ==
    IF q < eff
    THEN IF evaluate(cand, str_2) >= evaluate(string, str_2) THEN string ELSE cand
    ELSE cand

\* Select accepting a candidate that is no worse
SelectNoWorse(cand, string, str_2, eff, q) ==
    IF q < eff
    THEN IF evaluate(cand, str_2) < evaluate(string, str_2) THEN string ELSE cand
    ELSE cand

\* Lines 78-85 of string_edit: the selection logic.  q is the second random()
\* in halves, eff the acceptance probability in halves.
Select(cand, string, str_2, eff, q) ==
    IF q < eff
    THEN IF evaluate(cand, str_2) <= evaluate(string, str_2) THEN string ELSE cand
    ELSE cand

string_edit(string, str_2, eff, d) ==
    Select(Candidate(string, d), string, str_2, eff, d.q)

\* The draws string_edit can make on a string: the operator, the position
\* randint gives for it, the inserted value, the selection draw.  Components
\* a branch does not draw are 0.  An insert is drawn only below MaxLen.
EditDraws(string) ==
    {d \in [p : 0..2, position : 0..Len(string), value : 0..1, q : 0..1] :
        /\ d.p = 0 => d.position <= Len(string) - 1 /\ d.value = 0
        /\ d.p = 1 => Len(string) < MaxLen
        /\ d.p = 2 => d.value = 0 /\ (IF Len(string) > 1
                                      THEN d.position <= Len(string) - 1
                                      ELSE d.position = 0)}

resource_function(cS, effectiveness, cT) ==
    (cS * effectiveness) - (cT * (Unit - effectiveness))

-----------------------------------------------------------------------------
(* class Society *)

\* Society.__init__ (lines 139-148), given the two generated strings
Society(space0, technologies0, initial_endowment) ==
    [space |-> space0, technologies |-> technologies0,
     resource_store |-> initial_endowment,
     initial_endowment |-> initial_endowment,
     is_depleted |-> FALSE]

\* Surplus with > for >=
SurplusStrict(net) == net > Unit

\* line 156
Surplus(net) == net >= Unit

\* Deficit without the maintenance cost of a non-negative net flow
DeficitNoMaintenance(net) == IF net >= 0 THEN 0 ELSE Abs(net)

\* lines 160-164
Deficit(net) == IF net >= 0 THEN Unit ELSE Abs(net)

\* Covers with > for >=
CoversStrict(store, deficit) == store > deficit

\* line 165
Covers(store, deficit) == store >= deficit

\* Maintain crediting the deficit to the store
MaintainAdds(self, deficit) ==
    [self |-> [self EXCEPT !.resource_store = self.resource_store + deficit], ret |-> Unit]

\* lines 166-167
Maintain(self, deficit) ==
    [self |-> [self EXCEPT !.resource_store = @ - deficit], ret |-> Unit]

\* Collapse with line 171 (self.resource_store = 0) left out
CollapseKeepsStore(self) ==
    [self |-> [self EXCEPT !.is_depleted = TRUE], ret |-> self.resource_store]

\* Collapse returning the store after it was emptied, not `remaining`
CollapseReturnsZero(self) ==
    [self |-> [self EXCEPT !.resource_store = 0, !.is_depleted = TRUE], ret |-> 0]

\* lines 170-173
Collapse(self) ==
    [self |-> [self EXCEPT !.resource_store = 0, !.is_depleted = TRUE],
     ret  |-> self.resource_store]

\* Society.update_resource_store: the object after the call and the value returned
update_resource_store(self, net) ==
    IF Surplus(net)
    THEN [self |-> self, ret |-> net]
    ELSE LET deficit == Deficit(net)
         IN  IF Covers(self.resource_store, deficit)
             THEN Maintain(self, deficit)
             ELSE Collapse(self)

\* Society.tradeoff: np.random.choice([True, False], iterations, p=[p, 1-p]).
\* The sequences of choices it can return for p in halves.
tradeoff(n, p) ==
    {c \in [1..n -> BOOLEAN] :
        \A i \in 1..n : (c[i] => p > 0) /\ (~c[i] => p < 2)}

ce_technologies(technologies, space, eta, d) == string_edit(technologies, space, eta, d)

ce_space(space, technologies, lambda, d) == string_edit(space, technologies, lambda, d)

-----------------------------------------------------------------------------
(* simulation(): parameters and records *)

\* s_prob=None / t_prob=None: no probability given (a value outside the probabilities)
None == -1
\* eta, lambda, p_tradeoff in halves: 0.0, 0.5, 1.0
Probs == 0..2
\* s_prob, t_prob: a probability or None
ProbArgs == {None} \cup Probs
\* initial_endowment: whole resource units, scaled
Endowments == {e * Unit : e \in 0..MaxEndow}
\* limit: a complexity limit the strings can reach, and one they cannot
Limits == {2, MaxLen + 1}

Args ==
    [seed : 0..MaxSeed, limit : Limits, generations : 1..MaxGen,
     s_length : 1..MaxInitLen, s_prob : ProbArgs,
     t_length : 1..MaxInitLen, t_prob : ProbArgs,
     eta : Probs, lambda : Probs,
     initial_endowment : Endowments, p_tradeoff : Probs]

\* The row simulation appends to output (lines 269 and 303)
Row(soc, g, eff, avail) ==
    [seed |-> args.seed, generation |-> g,
     tech_complexity |-> Len(soc.technologies), space_complexity |-> Len(soc.space),
     effectiveness |-> eff,
     initial_tech |-> args.t_length, initial_space |-> args.s_length,
     eta |-> args.eta, lambda |-> args.lambda,
     initial_endowment |-> args.initial_endowment, p_tradeoff |-> args.p_tradeoff,
     available_resources |-> avail, resource_store |-> soc.resource_store]

\* The state before simulation has constructed anything
NoSociety == Society(<<>>, <<>>, 0)

\* lines 265 and 274
NetNow ==
    resource_function(Len(s.space), evaluate(s.space, s.technologies), Len(s.technologies))

\* lines 267 and 276: the call on the current society
UpdateNow == update_resource_store(s, NetNow)

\* Iterations rounding up
IterationsCeil(avail) == IF avail >= Unit THEN (avail + Unit - 1) \div Unit ELSE 1

\* line 287
Iterations(avail) == IF avail >= Unit THEN Round(avail) ELSE 1

\* InRange with the loop running one generation too far
InRangeInclusive(g, generations) == g <= generations

\* line 272: for gen in range(1, generations)
InRange(g, generations) == g < generations

\* DepletionCheck left out
DepletionCheckOff(soc) == FALSE

\* line 278: if s.is_depleted
DepletionCheck(soc) == soc.is_depleted

\* LimitReached with > for >=
LimitReachedStrict(technologies, limit) == Len(technologies) > limit

\* line 308
LimitReached(technologies, limit) == Len(technologies) >= limit

\* Every sequence of choices tradeoff can return in the model
AllChoices == UNION {[1..n -> BOOLEAN] : n \in 0..MaxLen}

-----------------------------------------------------------------------------
(* simulation(): the steps *)

Harness == <<str_1, new, call>>

\* The harness outside a call: no second string, no probability, no draws
NoCall == [str_2 |-> <<>>, eff |-> 0, d |-> [p |-> 0, position |-> 0, value |-> 0, q |-> 0], ret |-> 0]
Rng == <<np_state, rn_state>>
History == <<prev_output, run>>

\* lines 251-259: seed, empty output, construct the society from the two
\* generated strings (idx_s, idx_t are the symbols numpy draws)
Construct(idx_s, idx_t) ==
    /\ pc = "start"
    /\ s' = Society(string_generator(args.s_prob, args.s_length, idx_s),
                    string_generator(args.t_prob, args.t_length, idx_t),
                    args.initial_endowment)
    /\ output' = <<>>
    /\ pc' = "gen0"
    /\ UNCHANGED <<args, gen, net_resources, available_resources, iterations,
                   choices, outcome, store_before, depleted_before, Harness>>

\* lines 261-269: generation 0
Gen0 ==
    /\ pc = "gen0"
    /\ LET r == UpdateNow
       IN  /\ net_resources' = NetNow
           /\ store_before' = s.resource_store
           /\ depleted_before' = s.is_depleted
           /\ s' = r.self
           /\ available_resources' = r.ret
           /\ output' = Append(output, Row(r.self, 0, evaluate(s.technologies, s.space), r.ret))
    /\ gen' = 1
    /\ pc' = "loop"
    /\ UNCHANGED <<args, iterations, choices, outcome, Harness, Rng, History>>

\* lines 272-291: the head of a generation: net resources, the store update,
\* the depletion check and return, the iterations and the tradeoff draws c
LoopUpdate(c) ==
    /\ pc = "loop"
    /\ InRange(gen, args.generations)
    /\ LET r == UpdateNow
           n == Iterations(r.ret)
       IN  /\ net_resources' = NetNow
           /\ store_before' = s.resource_store
           /\ depleted_before' = s.is_depleted
           /\ s' = r.self
           /\ available_resources' = r.ret
           /\ IF DepletionCheck(r.self)
              THEN /\ c = <<>>
                   /\ pc' = "done"
                   /\ outcome' = "depleted"
                   /\ UNCHANGED <<iterations, choices>>
              ELSE /\ c \in tradeoff(n, args.p_tradeoff)
                   /\ iterations' = n
                   /\ choices' = c
                   /\ pc' = IF n > 0 THEN "edit" ELSE "record"
                   /\ UNCHANGED outcome
    /\ UNCHANGED <<args, output, gen, Harness, History>>

\* lines 293-296: one evolutionary event on the technological system
EvolveTechnologies(d) ==
    /\ pc = "edit"
    /\ choices # <<>>
    /\ Head(choices) = TRUE
    /\ d \in EditDraws(s.technologies)
    /\ s' = [s EXCEPT !.technologies = ce_technologies(s.technologies, s.space, args.eta, d)]
    /\ depleted_before' = s.is_depleted
    /\ choices' = Tail(choices)
    /\ pc' = IF Tail(choices) = <<>> THEN "record" ELSE "edit"
    /\ UNCHANGED <<args, output, gen, net_resources, available_resources,
                   iterations, outcome, store_before, Harness, History>>

\* lines 293-299: one evolutionary event on the search space
EvolveSpace(d) ==
    /\ pc = "edit"
    /\ choices # <<>>
    /\ Head(choices) = FALSE
    /\ d \in EditDraws(s.space)
    /\ s' = [s EXCEPT !.space = ce_space(s.space, s.technologies, args.lambda, d)]
    /\ depleted_before' = s.is_depleted
    /\ choices' = Tail(choices)
    /\ pc' = IF Tail(choices) = <<>> THEN "record" ELSE "edit"
    /\ UNCHANGED <<args, output, gen, net_resources, available_resources,
                   iterations, outcome, store_before, Harness, History>>

\* lines 300-313: effectiveness, the record, the complexity limit check
Record ==
    /\ pc = "record"
    /\ output' = Append(output, Row(s, gen, evaluate(s.technologies, s.space), available_resources))
    /\ IF LimitReached(s.technologies, args.limit)
       THEN pc' = "done" /\ outcome' = "limit" /\ UNCHANGED gen
       ELSE pc' = "loop" /\ gen' = gen + 1 /\ UNCHANGED outcome
    /\ UNCHANGED <<args, s, net_resources, available_resources, iterations,
                   choices, store_before, depleted_before, Harness, Rng, History>>

\* lines 314-319: the generations are exhausted
LoopExit ==
    /\ pc = "loop"
    /\ ~InRange(gen, args.generations)
    /\ pc' = "done"
    /\ outcome' = "generations"
    /\ UNCHANGED <<args, s, output, gen, net_resources, available_resources,
                   iterations, choices, store_before, depleted_before,
                   Harness, Rng, History>>

-----------------------------------------------------------------------------
(* Spec: one run of simulation, every random draw a free choice *)

\* The arguments of the runs of Spec: valid ones.  s_prob and t_prob are left
\* None (as src/model/multi.py passes them) and the seed is 0: a draw that
\* is a free choice depends on neither.  eta and lambda are 0.5 or 1.0: every
\* edit a run makes with 0.0 is one a run with 0.5 makes too.
RunArgs ==
    {a \in Args : /\ a.seed = 0 /\ a.s_prob = None /\ a.t_prob = None
                  /\ a.eta >= 1 /\ a.lambda >= 1}

Blank ==
    /\ s = NoSociety
    /\ output = <<>>
    /\ gen = 0
    /\ net_resources = 0
    /\ available_resources = 0
    /\ iterations = 0
    /\ choices = <<>>
    /\ outcome = "running"
    /\ store_before = 0
    /\ depleted_before = FALSE
    /\ str_1 = <<>>
    /\ new = <<>>
    /\ call = NoCall
    /\ prev_output = <<>>
    /\ run = 1

Init ==
    /\ pc = "start"
    /\ args \in RunArgs
    /\ np_state = 0
    /\ rn_state = 0
    /\ Blank

Start ==
    /\ \E idx_s \in [1..args.s_length -> 0..1], idx_t \in [1..args.t_length -> 0..1] :
          Construct(idx_s, idx_t)
    /\ UNCHANGED <<Rng, History>>

Update == (\E c \in AllChoices : LoopUpdate(c)) /\ UNCHANGED Rng

Technologies == (\E d \in EditDraws(s.technologies) : EvolveTechnologies(d)) /\ UNCHANGED Rng

Space == (\E d \in EditDraws(s.space) : EvolveSpace(d)) /\ UNCHANGED Rng

Next == Start \/ Gen0 \/ Update \/ Technologies \/ Space \/ Record \/ LoopExit

Spec == Init /\ [][Next]_vars

\* FairSpec: simulation is one synchronous call, so once called it keeps
\* executing (weak fairness of its steps).  The runs are those with eta,
\* lambda and p_tradeoff at 0.5, which can make every edit and every choice
\* the runs with the other values make.
InitFair == Init /\ args.eta = 1 /\ args.lambda = 1 /\ args.p_tradeoff = 1

FairSpec == InitFair /\ [][Next]_vars /\ WF_vars(Next)

\* FairZero: the runs of FairSpec that start with an empty store
InitZero == InitFair /\ args.initial_endowment = 0

FairZero == InitZero /\ [][Next]_vars /\ WF_vars(Next)

-----------------------------------------------------------------------------
(* SpecDet: the same run made twice in one process, every random draw      *)
(* taken from the two global generators the run seeds.  A generator is a   *)
(* state that the seed sets and that every draw advances; the value drawn  *)
(* is a function of the state.  What ran before has left both generators   *)
(* in any state.                                                           *)

RngStates == 0..(RngMod - 1)

\* one draw: the generator's next state
Nxt(x) == (5 * x + 3) % RngMod

\* the value in 0..n-1 a draw yields in state x
Pick(x, n) == ((x \div 2) + x) % n

\* line 252: np.random.seed(seed)
SeedNp(seed, state) == seed % RngMod

\* SeedRn left out: the generator stays in the state it was in
SeedRnKeepsState(seed, state) == state

\* line 253: rn.seed(int(seed))
SeedRn(seed, state) == (seed + 1) % RngMod

\* the states of the next n draws
RECURSIVE Stream(_, _)
Stream(x, n) == IF n = 0 THEN <<>> ELSE <<Nxt(x)>> \o Stream(Nxt(x), n - 1)

Last(x, n) == IF n = 0 THEN x ELSE Stream(x, n)[n]

\* lines 135-138: a probability left None costs one draw of np.random.uniform
UniformDraws(a) == (IF a.s_prob = None THEN 1 ELSE 0) + (IF a.t_prob = None THEN 1 ELSE 0)

\* the n symbols np.random.choice draws from state x on
Symbols(x, n) == [i \in 1..n |-> Pick(Stream(x, n)[i], 2)]

\* the n choices np.random.choice([True, False], n, p=[p, 1-p]) draws from x on
Choices(x, n, p) == [i \in 1..n |-> Pick(Stream(x, n)[i], 2) < p]

\* The draws of one string_edit from state x on, in the order the code makes
\* them: random(); randint() unless a length-1 string is contracted; random()
\* for an inserted value; random() for the selection.
DetDraws(string, x) ==
    LET x1 == Nxt(x)
        p  == Pick(x1, 3)
        x2 == IF p = 2 /\ Len(string) <= 1 THEN x1 ELSE Nxt(x1)
        position == IF p = 0 THEN Pick(x2, Len(string))
                    ELSE IF p = 1 THEN Pick(x2, Len(string) + 1)
                    ELSE IF Len(string) > 1 THEN Pick(x2, Len(string))
                    ELSE 0
        x3 == IF p = 1 THEN Nxt(x2) ELSE x2
        value == IF p = 1 THEN Pick(x3, 2) ELSE 0
        x4 == Nxt(x3)
    IN  [d |-> [p |-> p, position |-> position, value |-> value, q |-> Pick(x4, 2)],
         state |-> x4]

\* The arguments of the runs of SpecDet
DetArgs ==
    {a \in Args : /\ a.generations = MaxGen /\ a.limit = MaxLen + 1
                  /\ a.eta = 1 /\ a.lambda = 1 /\ a.p_tradeoff = 1
                  /\ a.s_prob \in {None, 1} /\ a.t_prob \in {None, 1}}

InitDet ==
    /\ pc = "start"
    /\ args \in DetArgs
    /\ np_state \in RngStates
    /\ rn_state \in RngStates
    /\ Blank

DetStart ==
    LET np0 == Last(SeedNp(args.seed, np_state), UniformDraws(args))
        np1 == Last(np0, args.s_length)
    IN  /\ Construct(Symbols(np0, args.s_length), Symbols(np1, args.t_length))
        /\ np_state' = Last(np1, args.t_length)
        /\ rn_state' = SeedRn(args.seed, rn_state)
        /\ UNCHANGED History

DetUpdate ==
    LET r == UpdateNow
        n == IF DepletionCheck(r.self) THEN 0 ELSE Iterations(r.ret)
    IN  /\ LoopUpdate(Choices(np_state, n, args.p_tradeoff))
        /\ np_state' = Last(np_state, n)
        /\ UNCHANGED rn_state

DetTechnologies ==
    LET e == DetDraws(s.technologies, rn_state)
    IN  /\ EvolveTechnologies(e.d)
        /\ rn_state' = e.state
        /\ UNCHANGED np_state

DetSpace ==
    LET e == DetDraws(s.space, rn_state)
    IN  /\ EvolveSpace(e.d)
        /\ rn_state' = e.state
        /\ UNCHANGED np_state

\* simulation is called again with the same arguments, in the same process
Rerun ==
    /\ pc = "done"
    /\ run = 1
    /\ prev_output' = output
    /\ run' = 2
    /\ pc' = "start"
    /\ s' = NoSociety
    /\ output' = <<>>
    /\ gen' = 0
    /\ net_resources' = 0
    /\ available_resources' = 0
    /\ iterations' = 0
    /\ choices' = <<>>
    /\ outcome' = "running"
    /\ store_before' = 0
    /\ depleted_before' = FALSE
    /\ UNCHANGED <<args, Harness, Rng>>

NextDet ==
    DetStart \/ Gen0 \/ DetUpdate \/ DetTechnologies \/ DetSpace \/ Record \/ LoopExit \/ Rerun

SpecDet == InitDet /\ [][NextDet]_vars

-----------------------------------------------------------------------------
(* SpecStore: Society.update_resource_store called on a society with any   *)
(* store, with any net resources, any number of times.                     *)

\* resource_function lies between -cT and cS
NetFlows == (-(MaxLen * Unit))..(MaxLen * Unit)

Stores == 0..(MaxEndow * Unit)

InitStore ==
    /\ pc = "store"
    /\ args \in {a \in RunArgs : a.generations = 1 /\ a.limit = 2 /\ a.eta = 1 /\ a.lambda = 1
                                 /\ a.p_tradeoff = 1 /\ a.s_length = 1 /\ a.t_length = 1
                                 /\ a.initial_endowment = 0}
    /\ np_state = 0
    /\ rn_state = 0
    /\ \E e \in Stores : s = Society(<<0>>, <<0>>, e)
    /\ output = <<>>
    /\ gen = 0
    /\ net_resources = 0
    /\ available_resources = 0
    /\ iterations = 0
    /\ choices = <<>>
    /\ outcome = "running"
    /\ store_before = 0
    /\ depleted_before = FALSE
    /\ str_1 = <<>>
    /\ new = <<>>
    /\ call = NoCall
    /\ prev_output = <<>>
    /\ run = 1

StoreUpdate ==
    /\ pc = "store"
    /\ \E net \in NetFlows :
          LET r == update_resource_store(s, net)
          IN  /\ net_resources' = net
              /\ store_before' = s.resource_store
              /\ depleted_before' = s.is_depleted
              /\ s' = r.self
              /\ available_resources' = r.ret
    /\ UNCHANGED <<pc, args, output, gen, iterations, choices, outcome,
                   Harness, Rng, History>>

SpecStore == InitStore /\ [][StoreUpdate]_vars

-----------------------------------------------------------------------------
(* SpecOps: the string operators applied to any bit-string of the model.   *)
(* pc names the operator that produced new from str_1.                     *)

Strings == UNION {StringsOfLen(n) : n \in 1..MaxLen}

InitOps ==
    /\ pc = "ops"
    /\ args \in {a \in RunArgs : a.generations = 1 /\ a.limit = 2 /\ a.eta = 1 /\ a.lambda = 1
                                 /\ a.p_tradeoff = 1 /\ a.s_length = 1 /\ a.t_length = 1
                                 /\ a.initial_endowment = 0}
    /\ np_state = 0
    /\ rn_state = 0
    /\ s = NoSociety
    /\ output = <<>>
    /\ gen = 0
    /\ net_resources = 0
    /\ available_resources = 0
    /\ iterations = 0
    /\ choices = <<>>
    /\ outcome = "running"
    /\ store_before = 0
    /\ depleted_before = FALSE
    /\ prev_output = <<>>
    /\ run = 1
    /\ str_1 \in Strings
    /\ new = <<>>
    /\ call = NoCall

OpsFrame ==
    UNCHANGED <<args, s, output, gen, net_resources, available_resources, iterations,
                choices, outcome, store_before, depleted_before, str_1, call, Rng, History>>

\* delete(str_1), called directly
OpsDelete ==
    /\ pc = "ops"
    /\ \E position \in 0..(Len(str_1) - 1) : new' = delete(str_1, position)
    /\ pc' = "delete"
    /\ OpsFrame

\* lines 67-76 of string_edit on str_1: Modify, Expand or Contract
OpsCandidate ==
    /\ pc = "ops"
    /\ \E d \in EditDraws(str_1) :
          /\ new' = Candidate(str_1, d)
          /\ pc' = IF d.p < 1 THEN "modify" ELSE IF d.p < 2 THEN "expand" ELSE "contract"
    /\ OpsFrame

\* the result becomes the next argument
OpsAgain ==
    /\ pc \in {"delete", "modify", "expand", "contract"}
    /\ Len(new) >= 1
    /\ str_1' = new
    /\ new' = <<>>
    /\ pc' = "ops"
    /\ UNCHANGED <<args, s, output, gen, net_resources, available_resources, iterations,
                   choices, outcome, store_before, depleted_before, call, Rng, History>>

\* evaluate(str_1, str_2) for any second string; call.ret is the value returned
OpsEvaluate ==
    /\ pc = "ops"
    /\ \E b \in Strings :
          call' = [NoCall EXCEPT !.str_2 = b, !.ret = evaluate(str_1, b)]
    /\ pc' = "evaluate"
    /\ UNCHANGED <<args, s, output, gen, net_resources, available_resources, iterations,
                   choices, outcome, store_before, depleted_before, str_1, new, Rng, History>>

\* string_edit(str_1, str_2, eff) with any reference string, any acceptance
\* probability and any draws
OpsStringEdit ==
    /\ pc = "ops"
    /\ \E b \in Strings, eff \in Probs, d \in EditDraws(str_1) :
          /\ new' = string_edit(str_1, b, eff, d)
          /\ call' = [NoCall EXCEPT !.str_2 = b, !.eff = eff, !.d = d]
    /\ pc' = "string_edit"
    /\ UNCHANGED <<args, s, output, gen, net_resources, available_resources, iterations,
                   choices, outcome, store_before, depleted_before, str_1, Rng, History>>

\* string_generator(p, l): call.eff is p, call.ret is l
OpsGenerate ==
    /\ pc = "ops"
    /\ \E p \in Probs, l \in 0..MaxLen :
          \E idx \in [1..l -> 0..1] :
             /\ new' = string_generator(p, l, idx)
             /\ call' = [NoCall EXCEPT !.eff = p, !.ret = l]
    /\ pc' = "string_generator"
    /\ UNCHANGED <<args, s, output, gen, net_resources, available_resources, iterations,
                   choices, outcome, store_before, depleted_before, str_1, Rng, History>>

NextOps == OpsDelete \/ OpsCandidate \/ OpsAgain \/ OpsEvaluate \/ OpsStringEdit \/ OpsGenerate

SpecOps == InitOps /\ [][NextOps]_vars

-----------------------------------------------------------------------------
(* SpecInvalid: simulation called with a configuration outside the domain  *)
(* of the parameters.  Nothing in simulation or Society.__init__ looks at  *)
(* the values before using them.  The configurations here are those the    *)
(* arithmetic of the program runs on as on any other: a negative           *)
(* initial_endowment, an eta or lambda outside [0,1] (-0.5 or 1.5).        *)

InvalidArgs ==
    {a \in [seed : {0}, limit : Limits, generations : 1..MaxGen,
            s_length : 1..MaxInitLen, s_prob : {None},
            t_length : 1..MaxInitLen, t_prob : {None},
            eta : {-1, 1, 3}, lambda : {1},
            initial_endowment : {-Unit, Unit}, p_tradeoff : {1}] :
        a.initial_endowment < 0 \/ a.eta \notin Probs}

InitInvalid ==
    /\ pc = "start"
    /\ args \in InvalidArgs
    /\ np_state = 0
    /\ rn_state = 0
    /\ Blank

SpecInvalid == InitInvalid /\ [][Next]_vars

-----------------------------------------------------------------------------
(* Properties *)

\* C1. Depletion is absorbing: a depleted society has an empty store, and
\* once is_depleted is true no step makes it false or the store non-zero.
C1_DepletionAbsorbing ==
    /\ [](s.is_depleted => s.resource_store = 0)
    /\ [][s.is_depleted => (s'.is_depleted /\ s'.resource_store = 0)]_vars

\* C1 witness: update_resource_store has run on an already depleted society
\* and the society is still depleted with an empty store.
C1_Witness ==
    pc = "done" /\ depleted_before /\ s.is_depleted /\ s.resource_store = 0

\* C2. No Society mutator (update_resource_store, ce_technologies, ce_space)
\* is ever entered while is_depleted is already true.
C2_NoMutatorOnDepleted == ~depleted_before

\* The three conditions of C3 at return
C3_Limit == output # <<>> /\ output[Len(output)].tech_complexity >= args.limit
C3_Generations == Len(output) = args.generations
C3_NoRecordForGen == \A i \in DOMAIN output : output[i].generation # gen
\* depleted, and the generation whose update depleted the society has no record
C3_Depleted ==
    /\ s.is_depleted /\ s.resource_store = 0
    /\ outcome = "depleted" /\ ~depleted_before /\ C3_NoRecordForGen
\* depleted, and the generation in which the run stopped has no record
C3_DepletedStop ==
    /\ s.is_depleted /\ s.resource_store = 0
    /\ outcome = "depleted" /\ C3_NoRecordForGen

\* C3 as claimed: at return exactly one of the three conditions holds.
C3_ExactlyOne ==
    pc = "done" =>
        \/ C3_Limit /\ ~C3_Depleted /\ ~C3_Generations
        \/ ~C3_Limit /\ C3_Depleted /\ ~C3_Generations
        \/ ~C3_Limit /\ ~C3_Depleted /\ C3_Generations

\* C3 as amended. Every run terminates, with at most generations records,
\* and at return at least one of these holds: the last record's
\* tech_complexity >= limit; the society is depleted with an empty store and
\* the run stopped without a record for the generation it stopped in; the
\* number of records equals generations.
C3_Termination ==
    /\ <>(pc = "done")
    /\ [](Len(output) <= args.generations)
    /\ [](pc = "done" => (C3_Limit \/ C3_DepletedStop \/ C3_Generations))

\* C3 witness: a run that returned with two of the conditions at once (the
\* complexity limit reached in the last generation).
C3_Witness ==
    pc = "done" /\ outcome = "limit" /\ Len(output) = args.generations /\ Len(output) >= 2

\* C4. When the update of a generation g >= 1 depletes the society, that step
\* returns: no record for g, the strings untouched, the output exactly the
\* records of generations 0..g-1 (so not empty); and nothing runs after it.
C4_DepletionStops ==
    /\ [][(pc = "loop" /\ gen >= 1 /\ gen < args.generations /\ s'.is_depleted)
            => /\ pc' = "done"
               /\ output' = output
               /\ s'.technologies = s.technologies /\ s'.space = s.space
               /\ Len(output') = gen /\ Len(output') >= 1
               /\ \A i \in 1..gen : output'[i].generation = i - 1]_vars
    /\ [][pc # "done"]_vars

\* C4 witness: a run stopped by depletion in generation 2, after two records.
C4_Witness ==
    pc = "done" /\ outcome = "depleted" /\ ~depleted_before /\ gen = 2 /\ Len(output) = 2

C6_Deterministic ==
    run = 2 =>
        /\ Len(output) <= Len(prev_output)
        /\ \A i \in DOMAIN output : output[i] = prev_output[i]
        /\ pc = "done" => output = prev_output

\* C6 witness: a second run that has returned with the records of the first,
\* after edit events in two generations.
C6_Witness ==
    run = 2 /\ pc = "done" /\ Len(output) >= 3 /\ output = prev_output

\* C7. Surplus: a call with net_resources >= 1 on a store >= 0 returns
\* net_resources, leaves resource_store as it was and is_depleted as it was
\* (false stays false).
C7_Surplus ==
    (net_resources >= Unit /\ store_before >= 0)
        => /\ available_resources = net_resources
           /\ s.resource_store = store_before
           /\ s.is_depleted = depleted_before

\* C7 witness: a surplus of exactly 1 on a society that is not depleted.
C7_Witness ==
    net_resources = Unit /\ ~depleted_before /\ ~s.is_depleted /\ available_resources = Unit

\* C8. Collapse: a call with net_resources < 0 and abs(net_resources) > store
\* sets is_depleted, empties the store and returns the store as it was.
C8_Collapse ==
    (net_resources < 0 /\ store_before >= 0 /\ Abs(net_resources) > store_before)
        => /\ s.is_depleted
           /\ s.resource_store = 0
           /\ available_resources = store_before

\* C8 witness: a collapse of a society that held a positive store.
C8_Witness ==
    /\ net_resources < 0 /\ Abs(net_resources) > store_before /\ store_before > 0
    /\ ~depleted_before /\ s.is_depleted

\* C9. Whenever the store is 0 after an update that drew from it (net
\* resources < 1), the society is depleted.
C9_ZeroIsTerminal ==
    (pc \in {"loop", "edit", "record", "done"} /\ net_resources < Unit /\ s.resource_store = 0)
        => s.is_depleted

\* a string with the symbol at 1-based index k removed
Without(string, k) ==
    [j \in 1..(Len(string) - 1) |-> IF j < k THEN string[j] ELSE string[j + 1]]

\* C10 as claimed: delete shortens a string longer than 1 by one position and
\* returns a string of length 1 unchanged.
C10_DeleteAsClaimed ==
    pc = "delete" =>
        IF Len(str_1) > 1
        THEN Len(new) = Len(str_1) - 1 /\ \E k \in 1..Len(str_1) : new = Without(str_1, k)
        ELSE new = str_1

\* C10 as amended. delete removes one position of a string longer than 1;
\* string_edit never contracts below length 1: its Contract step is delete
\* on a string longer than 1 and leaves a string of length 1 unchanged
\* (delete itself, called on a string of length 1, returns the empty string).
C10_Contract ==
    /\ (pc \in {"delete", "contract"} /\ Len(str_1) > 1)
          => /\ Len(new) = Len(str_1) - 1
             /\ \E k \in 1..Len(str_1) : new = Without(str_1, k)
    /\ (pc = "contract" /\ Len(str_1) = 1) => new = str_1
    /\ (pc = "delete" /\ Len(str_1) = 1) => new = <<>>
    /\ pc = "contract" => Len(new) >= 1

\* C10 witness: the Contract step of string_edit on a string of length 1
C10_Witness == pc = "contract" /\ Len(str_1) = 1 /\ new = str_1

\* C11. With s_length >= 1 and t_length >= 1, technologies and space are, in
\* every state once the Society is constructed, strings over {0,1} of length
\* at least 1 (the denominator of the similarity is never 0), and one edit
\* event changes the length of the string it edits by at most 1 and leaves
\* the other string alone.
C11_BitStrings ==
    /\ [](pc # "start" =>
            /\ s.technologies \in Seq(Bit) /\ Len(s.technologies) >= 1
            /\ s.space \in Seq(Bit) /\ Len(s.space) >= 1
            /\ Max(Len(s.technologies), Len(s.space)) # 0)
    /\ [][pc = "edit" =>
            \/ s'.space = s.space /\ Abs(Len(s'.technologies) - Len(s.technologies)) <= 1
            \/ s'.technologies = s.technologies /\ Abs(Len(s'.space) - Len(s.space)) <= 1]_vars

\* a string of two symbols has been edited down to one, where Contract no
\* longer deletes
C11_Witness ==
    /\ pc = "record"
    /\ args.t_length = 2
    /\ Len(s.technologies) = 1

\* C12. A configuration that is invalid (a negative initial_endowment, a
\* probability outside [0,1], a length <= 0) is rejected before the run
\* starts: no Society is constructed and no record is emitted.
C12_Rejected ==
    /\ s = NoSociety
    /\ output = <<>>

\* C13. With eta = 1.0 and lambda = 1.0 every edit is selective, so the
\* effectiveness never decreases from one record to the next; and when
\* technologies and space start identical (effectiveness 1.0 at generation 0)
\* the two strings stay as constructed, in every state, and every record has
\* effectiveness 1.0.
C13_Selective ==
    (args.eta = 2 /\ args.lambda = 2 /\ output # <<>>) =>
        /\ \A i \in 2..Len(output) : output[i].effectiveness >= output[i - 1].effectiveness
        /\ output[1].effectiveness = Unit =>
              /\ s.technologies = s.space
              /\ Len(s.technologies) = args.t_length
              /\ \A i \in 1..Len(output) : output[i].effectiveness = Unit

\* a run of selective edits in which the effectiveness has risen
C13_Witness ==
    /\ args.eta = 2 /\ args.lambda = 2
    /\ pc = "done"
    /\ Len(output) >= 3
    /\ output[Len(output)].effectiveness > output[1].effectiveness

\* C14 as claimed: a run with initial_endowment = 0.0 whose initial strings
\* give a net flow below 1 terminates at generation 1 by depletion, returning
\* exactly the generation-0 record, the store never negative.
C14_AtGenerationOne ==
    /\ s.resource_store >= 0
    /\ (/\ args.initial_endowment = 0
        /\ pc = "done"
        /\ output # <<>>
        /\ resource_function(output[1].space_complexity, output[1].effectiveness,
                             output[1].tech_complexity) < Unit)
       => /\ outcome = "depleted"
          /\ gen = 1
          /\ Len(output) = 1
          /\ output[1].generation = 0

\* C14. A run with initial_endowment = 0.0 whose initial strings give a net
\* flow below 1 is depleted by the update of generation 0 and returns exactly
\* the generation-0 record, the store never negative: by the depletion return
\* at generation 1 when generations >= 2, by the end of the generations when
\* generations = 1.
C14_ZeroEndowment ==
    LET NetBelowOne ==
            /\ args.initial_endowment = 0
            /\ output # <<>>
            /\ resource_function(output[1].space_complexity, output[1].effectiveness,
                                 output[1].tech_complexity) < Unit
    IN  /\ [](s.resource_store >= 0)
        /\ [](NetBelowOne =>
                /\ s.is_depleted /\ s.resource_store = 0
                /\ Len(output) = 1
                /\ output[1].generation = 0
                /\ output[1].available_resources = 0
                /\ gen = 1
                /\ pc = "done" =>
                      outcome = (IF args.generations >= 2 THEN "depleted" ELSE "generations"))
        /\ (NetBelowOne ~> pc = "done")

\* the depletion return at generation 1 of a run that started with nothing
C14_Witness ==
    /\ args.initial_endowment = 0
    /\ pc = "done"
    /\ outcome = "depleted"
    /\ gen = 1
    /\ net_resources < Unit
    /\ output[1].available_resources = 0

\* C15. string_generator(p, l) returns a string of length l in which each
\* symbol is '1' with probability p: p = 1.0 yields only the all-'1' string
\* and p = 0.0 only the all-'0' string.
C15_ProbabilityOfOne ==
    pc = "string_generator" =>
        /\ Len(new) = call.ret
        /\ call.eff = 2 => \A i \in 1..Len(new) : new[i] = 1
        /\ call.eff = 0 => \A i \in 1..Len(new) : new[i] = 0

\* C16. evaluate is symmetric, evaluate(a, b) = evaluate(b, a), and
\* evaluate(a, a) = 1.0, for all non-empty bit-strings a and b: the value
\* returned for (str_1, str_2) is the value of (str_2, str_1), the order in
\* which the resource flow of generation 0 passes the strings the record
\* passes as (technologies, space).
C16_Symmetric ==
    pc = "evaluate" =>
        /\ call.ret = evaluate(call.str_2, str_1)
        /\ call.str_2 = str_1 => call.ret = Unit

\* evaluate applied to two different strings of different lengths
C16_Witness ==
    /\ pc = "evaluate"
    /\ Len(str_1) < Len(call.str_2)
    /\ call.ret > 0
    /\ call.ret < Unit

C18_Acceptance ==
    pc = "string_edit" =>
        LET c == Candidate(str_1, call.d)
            selective == call.d.q < call.eff
        IN  /\ selective =>
                 new = (IF evaluate(c, call.str_2) > evaluate(str_1, call.str_2) THEN c ELSE str_1)
            /\ ~selective => new = c
            /\ call.eff = 0 => ~selective
            /\ call.eff = 2 => selective

\* a selective edit whose candidate ties with the argument and is rejected
C18_Witness ==
    /\ pc = "string_edit"
    /\ call.d.q < call.eff
    /\ Candidate(str_1, call.d) # str_1
    /\ evaluate(Candidate(str_1, call.d), call.str_2) = evaluate(str_1, call.str_2)
    /\ new = str_1

\* C19. In every generation g >= 1 that emits a record, exactly `iterations`
\* edit events are applied one after the other, where iterations is
\* round(available_resources) when available_resources >= 1 and 1 otherwise,
\* so iterations >= 1; and from the previous record to the record of g the
\* lengths of technologies and space change, summed, by at most iterations.
\* The events still to apply are the choices left: the loop starts with
\* iterations of them, every event takes one and edits one string, and the
\* record is written when none is left.
C19_Iterations ==
    /\ [](pc \in {"edit", "record"} =>
            /\ iterations >= 1
            /\ IF available_resources >= Unit
               THEN 2 * Abs(iterations * Unit - available_resources) <= Unit
               ELSE iterations = 1
            /\ pc = "edit" => Len(choices) \in 1..iterations
            /\ pc = "record" => choices = <<>>
            /\ Abs(Len(s.technologies) - output[Len(output)].tech_complexity)
                 + Abs(Len(s.space) - output[Len(output)].space_complexity)
               <= iterations - Len(choices))
    /\ [][(pc = "loop" /\ pc' = "edit") => Len(choices') = iterations']_vars
    /\ [][pc = "edit" =>
            /\ Len(choices') = Len(choices) - 1
            /\ s'.technologies = s.technologies \/ s'.space = s.space
            /\ pc' = (IF choices' = <<>> THEN "record" ELSE "edit")]_vars
    /\ [][pc = "record" =>
            /\ Len(output') = Len(output) + 1
            /\ output'[Len(output')].generation = gen
            /\ output'[Len(output')].available_resources = available_resources
            /\ Abs(output'[Len(output')].tech_complexity - output[Len(output)].tech_complexity)
                 + Abs(output'[Len(output')].space_complexity
                         - output[Len(output)].space_complexity)
               <= iterations]_vars

\* a generation of three edit events that moved the lengths by three
C19_Witness ==
    /\ pc = "record"
    /\ iterations = 3
    /\ Abs(Len(s.technologies) - output[Len(output)].tech_complexity)
         + Abs(Len(s.space) - output[Len(output)].space_complexity) = 3

\* C20. With initial_endowment >= 0, resource_store is >= 0 in every state
\* and no step after the construction raises it; the resource_store column
\* of the records is non-increasing and bounded by initial_endowment; and an
\* edit event (ce_technologies, ce_space) leaves resource_store and
\* is_depleted as they were.
C20_StoreOnlyDrains ==
    /\ [](/\ s.resource_store >= 0
          /\ s.resource_store <= args.initial_endowment
          /\ \A i \in 1..Len(output) :
                /\ output[i].resource_store >= s.resource_store
                /\ output[i].resource_store <= args.initial_endowment
                /\ i > 1 => output[i].resource_store <= output[i - 1].resource_store)
    /\ [][pc # "start" => s'.resource_store <= s.resource_store]_vars
    /\ [][pc = "edit" => /\ s'.resource_store = s.resource_store
                         /\ s'.is_depleted = s.is_depleted]_vars

\* a run that drained a positive endowment over two generations
C20_Witness ==
    /\ pc = "done"
    /\ Len(output) >= 3
    /\ output[1].resource_store = args.initial_endowment
    /\ args.initial_endowment > 0
    /\ output[Len(output)].resource_store < output[1].resource_store

=============================================================================
